---- MODULE Spec2Model ----
(***************************************************************************)
(* Model of src/cli/main.py: the deploy and delete commands of the         *)
(* Kubernetes stack CLI.  Every kubectl invocation is one step; its result *)
(* (exit status of the subprocess) is chosen nondeterministically.         *)
(***************************************************************************)
EXTENDS Integers, Sequences, FiniteSets, TLC

VARIABLES
    pc,        \* position of the running command between two kubectl calls
    cmd,       \* "deploy" | "delete" | "none"
    stack,     \* the stack argument
    dry_run,   \* --dry-run
    timeout,   \* --timeout
    verbose,   \* --verbose
    idx,       \* position of the apply loop in files (1-based)
    widx,      \* position in the readiness waits (1-based)
    pbar,      \* tqdm progress of the apply loop
    wbar,      \* tqdm progress of the readiness waits
    calls,     \* kubectl subprocesses started by this invocation, in order
    log,       \* what this invocation wrote (loguru records and tqdm.write)
    exit,      \* process exit code, -1 while running
    outcome,   \* terminal state of the invocation, "none" while running
    cluster,   \* state of the target cluster
    cluster0,  \* cluster state when the current invocation started
    prev,      \* summary of the previous invocation
    runs       \* number of invocations started

vars == <<pc, cmd, stack, dry_run, timeout, verbose, idx, widx, pbar, wbar,
          calls, log, exit, outcome, cluster, cluster0, prev, runs>>

(* ---------------------------- bounds ----------------------------------- *)

MaxRuns == 2

(* ---------------------------- inputs ----------------------------------- *)

StackArgs == {"monitoring", "elk", "hadoop", "kube-system", "nosuch"}

Namespaces == {"monitoring", "elk", "kube-system"}

Timeouts == {"300s", "10s"}

(* ---------------------------- registry --------------------------------- *)

SUPPORT_STACKS ==
    [ monitoring |-> [ stack_code |-> "monitoring",
                       files |-> << "namespace.yaml",
                                    "prometheus-rbac.yaml",
                                    "prometheus-config.yaml",
                                    "prometheus-deployment.yaml",
                                    "prometheus-service.yaml",
                                    "grafana-deployment.yaml",
                                    "grafana-service.yaml",
                                    "monitoring-ingress.yaml" >> ],
      elk        |-> [ stack_code |-> "elk", files |-> << >> ],
      hadoop     |-> [ stack_code |-> "hadoop", files |-> << >> ] ]

RegistryKeys == DOMAIN SUPPORT_STACKS

Range(s) == { s[k] : k \in DOMAIN s }

(* ---------------------------- logging ---------------------------------- *)

\* logger.add(sys.stderr, level="DEBUG" if verbose else "INFO")
LoggerShows(v, level) == level # "DEBUG" \/ v

Emit(lg, v, level, msg, arg) ==
    IF LoggerShows(v, level)
    THEN Append(lg, [level |-> level, msg |-> msg, arg |-> arg])
    ELSE lg

\* tqdm.write goes to the terminal whatever the logger level is
TqdmWrite(lg, msg, arg) == Append(lg, [level |-> "OUT", msg |-> msg, arg |-> arg])

(* ---------------------------- backend ---------------------------------- *)

Call(op, arg, ns, flag, ok) ==
    [op |-> op, arg |-> arg, ns |-> ns, flag |-> flag, ok |-> ok]

\* kubectl apply -f file, accepted by the API server without the dry-run flag
ApplyEffect(c, file) ==
    [ namespaces |-> IF file = "namespace.yaml"
                     THEN c.namespaces \cup {"monitoring"}
                     ELSE c.namespaces,
      resources  |-> c.resources \cup {file} ]

\* kubectl delete namespaces ns: the namespace goes with everything in it
DeleteEffect(c, ns) ==
    [ namespaces |-> c.namespaces \ {ns},
      resources  |-> IF ns = "monitoring" THEN {} ELSE c.resources ]

\* run_cmd: logs the command at DEBUG, then starts the subprocess
RunCmdLog(lg, v, op) == Emit(lg, v, "DEBUG", "run_cmd", op)

run_cmd_never_raises(check, ok) == FALSE

\* subprocess.run(cmd, check=check) raises CalledProcessError exactly when
\* check is set and the subprocess failed
run_cmd_raises(check, ok) == check /\ ~ok

\* what the API server does with an accepted kubectl apply
BackendApply(c, file, flag) ==
    IF flag = "--dry-run=server" THEN c ELSE ApplyEffect(c, file)

\* apply_yaml builds the command line
ApplyFlag(dry) == IF dry THEN "--dry-run=server" ELSE ""

deploy_files_reversed ==
    [k \in 1..Len(SUPPORT_STACKS["monitoring"].files) |->
        SUPPORT_STACKS["monitoring"].files[
            Len(SUPPORT_STACKS["monitoring"].files) + 1 - k]]

\* files = [monitor_dir / name for name in SUPPORT_STACKS["monitoring"].files]
deploy_files == SUPPORT_STACKS["monitoring"].files

deploy_waits_swapped == << "app=grafana", "app=prometheus" >>

deploy_waits_undeclared == << "app=prometheus", "app=alertmanager" >>

deploy_waits_thrice == << "app=prometheus", "app=grafana", "app=grafana" >>

\* the two kubectl_wait calls of deploy, in program order
deploy_waits == << "app=prometheus", "app=grafana" >>

(* ---------------------------- initial state ---------------------------- *)

\* Before the first invocation the cluster holds none of the namespaces or all
\* of them: an invocation reads the cluster only through the existence of the
\* namespace its stack argument names.

NoPrev == [cmd |-> "none", stack |-> "", dry_run |-> FALSE, outcome |-> "none",
           exit |-> -1]

Init ==
    /\ pc = "idle"
    /\ cmd = "none"
    /\ stack = ""
    /\ dry_run = FALSE
    /\ timeout = "300s"
    /\ verbose = FALSE
    /\ idx = 1
    /\ widx = 1
    /\ pbar = 0
    /\ wbar = 0
    /\ calls = << >>
    /\ log = << >>
    /\ exit = -1
    /\ outcome = "none"
    /\ cluster \in { [namespaces |-> n, resources |-> {}] : n \in {{}, Namespaces} }
    /\ cluster0 = cluster
    /\ prev = NoPrev
    /\ runs = 0

(* ---------------------------- command start ---------------------------- *)

StartRun(c, s, d, t, v) ==
    /\ pc \in {"idle", "done"}
    /\ runs < MaxRuns
    /\ runs' = runs + 1
    /\ pc' = "version"
    /\ cmd' = c
    /\ stack' = s
    /\ dry_run' = d
    /\ timeout' = t
    /\ verbose' = v
    /\ idx' = 1
    /\ widx' = 1
    /\ pbar' = 0
    /\ wbar' = 0
    /\ calls' = << >>
    /\ log' = << >>
    /\ exit' = -1
    /\ outcome' = "none"
    /\ cluster0' = cluster
    /\ prev' = [cmd |-> cmd, stack |-> stack, dry_run |-> dry_run,
                outcome |-> outcome, exit |-> exit]
    /\ UNCHANGED cluster

\* deploy(stack, dry_run, timeout, verbose) up to the call of ensure_kubectl
deploy ==
    \E s \in StackArgs, d \in BOOLEAN, t \in Timeouts, v \in BOOLEAN :
        StartRun("deploy", s, d, t, v)

\* delete_stack(stack, verbose) up to the call of ensure_kubectl
delete_stack ==
    \E s \in StackArgs, v \in BOOLEAN :
        StartRun("delete", s, FALSE, "300s", v)

\* an uncaught exception or typer.Exit ends the process
Finish(code, out) ==
    /\ pc' = "done"
    /\ exit' = code
    /\ outcome' = out

(* ---------------------------- ensure_kubectl --------------------------- *)

ensure_kubectl_version_swallowed(ok) == FALSE

\* run_cmd(["kubectl", "version", "--client"], check=True) and its handler
ensure_kubectl_version_raises(ok) == run_cmd_raises(TRUE, ok)

ensure_kubectl_context_swallowed(ok) == FALSE

\* run_cmd(["kubectl", "config", "current-context"], check=True) and its handler
ensure_kubectl_context_raises(ok) == run_cmd_raises(TRUE, ok)

is_monitoring_any(s) == TRUE

\* if stack == "monitoring"
is_monitoring(s) == s = "monitoring"

UNKNOWN_STACK_EXIT == 2

\* kubectl version --client
ensure_kubectl_version(ok) ==
    /\ pc = "version"
    /\ calls' = Append(calls, Call("version", "--client", "", "", ok))
    /\ IF ensure_kubectl_version_raises(ok)
       THEN /\ log' = Emit(RunCmdLog(log, verbose, "version"), verbose,
                           "ERROR", "kubectl not found", "")
            /\ Finish(1, "BackendUnavailable")
       ELSE /\ log' = RunCmdLog(log, verbose, "version")
            /\ pc' = "context"
            /\ UNCHANGED <<exit, outcome>>
    /\ UNCHANGED <<cmd, stack, dry_run, timeout, verbose, idx, widx, pbar,
                   wbar, cluster, cluster0, prev, runs>>

\* kubectl config current-context; when it succeeds ensure_kubectl returns and
\* the command runs up to its next kubectl call
ensure_kubectl_context(ok) ==
    /\ pc = "context"
    /\ calls' = Append(calls, Call("context", "current-context", "", "", ok))
    /\ LET lg == RunCmdLog(log, verbose, "context") IN
       IF ensure_kubectl_context_raises(ok)
       THEN /\ log' = Emit(lg, verbose, "ERROR", "no current context", "")
            /\ Finish(1, "NoActiveContext")
       ELSE IF cmd = "delete"
       THEN /\ log' = lg
            /\ pc' = "get_ns"
            /\ UNCHANGED <<exit, outcome>>
       ELSE IF is_monitoring(stack)
       THEN /\ log' = Emit(lg, verbose, "INFO", "deploy start", "monitoring")
            /\ pc' = "apply"
            /\ UNCHANGED <<exit, outcome>>
       ELSE /\ log' = Emit(lg, verbose, "ERROR", "unknown stack", stack)
            /\ Finish(UNKNOWN_STACK_EXIT, "UnknownStack")
    /\ UNCHANGED <<cmd, stack, dry_run, timeout, verbose, idx, widx, pbar,
                   wbar, cluster, cluster0, prev, runs>>

(* ---------------------------- deploy: apply loop ----------------------- *)

apply_yaml_raises_inverted(exists, ok) == exists \/ run_cmd_raises(TRUE, ok)

apply_yaml_raises_nocheck(exists, ok) == run_cmd_raises(TRUE, ok)

apply_yaml_raises_unchecked(exists, ok) == ~exists

\* apply_yaml raises FileNotFoundError for a missing file, else whatever
\* run_cmd(cmd) raises (check defaults to True)
apply_yaml_raises(exists, ok) == ~exists \/ run_cmd_raises(TRUE, ok)

apply_except_rollback(c, cs) ==
    [ cluster |-> DeleteEffect(c, "monitoring"),
      calls   |-> Append(cs, Call("delete_ns", "monitoring", "", "", TRUE)),
      exit    |-> 1 ]

apply_except_exit2(c, cs) == [cluster |-> c, calls |-> cs, exit |-> 2]

\* except Exception: ... raise typer.Exit(code=1)
apply_except(c, cs) == [cluster |-> c, calls |-> cs, exit |-> 1]

\* one iteration of "for fp in files", and what follows the loop when it was
\* the last one
deploy_apply(exists, ok) ==
    /\ pc = "apply"
    /\ idx \in 1..Len(deploy_files)
    /\ LET file == deploy_files[idx]
           flag == ApplyFlag(dry_run)
           lg0  == TqdmWrite(log, "apply", file)
           lg1  == IF exists THEN RunCmdLog(lg0, verbose, "apply")
                   ELSE Emit(lg0, verbose, "ERROR", "manifest not found", file)
           cs   == IF exists
                   THEN Append(calls, Call("apply", file, "", flag, ok))
                   ELSE calls
       IN
       IF apply_yaml_raises(exists, ok)
       THEN LET h == apply_except(cluster, cs) IN
            /\ calls' = h.calls
            /\ cluster' = h.cluster
            /\ log' = Emit(TqdmWrite(lg1, "failed", file), verbose,
                           "ERROR", "apply failed", file)
            /\ Finish(h.exit, IF exists THEN "ApplyRejected"
                                        ELSE "ManifestNotFound")
            /\ UNCHANGED <<idx, pbar>>
       ELSE /\ calls' = cs
            /\ cluster' = BackendApply(cluster, file, flag)
            /\ pbar' = pbar + 1
            /\ idx' = idx + 1
            /\ IF idx < Len(deploy_files)
               THEN /\ log' = lg1
                    /\ UNCHANGED <<pc, exit, outcome>>
               ELSE IF dry_run
               THEN /\ log' = Emit(lg1, verbose, "INFO", "dry run done", "")
                    /\ Finish(0, "DryRunComplete")
               ELSE /\ log' = lg1
                    /\ pc' = "wait"
                    /\ UNCHANGED <<exit, outcome>>
    /\ UNCHANGED <<cmd, stack, dry_run, timeout, verbose, widx, wbar,
                   cluster0, prev, runs>>

(* ---------------------------- deploy: readiness waits ------------------ *)

kubectl_wait_unchecked(ok) == FALSE

kubectl_wait_raises_verbose(ok) == verbose /\ run_cmd_raises(TRUE, ok)

\* kubectl_wait: run_cmd(cmd), check defaults to True
kubectl_wait_raises(ok) == run_cmd_raises(TRUE, ok)

\* one kubectl_wait of deploy, and the success report after the last one
deploy_wait(ok) ==
    /\ pc = "wait"
    /\ widx \in 1..Len(deploy_waits)
    /\ LET label == deploy_waits[widx]
           lg    == RunCmdLog(TqdmWrite(log, "waiting", label), verbose, "wait")
       IN
       /\ calls' = Append(calls, Call("wait", label, "monitoring", timeout, ok))
       /\ IF kubectl_wait_raises(ok)
          THEN /\ log' = lg
               /\ Finish(1, "ReadinessTimeout")
               /\ UNCHANGED <<widx, wbar>>
          ELSE /\ wbar' = wbar + 1
               /\ widx' = widx + 1
               /\ IF widx < Len(deploy_waits)
                  THEN /\ log' = lg
                       /\ UNCHANGED <<pc, exit, outcome>>
                  ELSE /\ log' = Emit(Emit(lg, verbose, "SUCCESS", "deployed", ""),
                                      verbose, "INFO", "endpoints", "")
                       /\ Finish(0, "Ready")
    /\ UNCHANGED <<cmd, stack, dry_run, timeout, verbose, idx, pbar,
                   cluster, cluster0, prev, runs>>

(* ---------------------------- delete ----------------------------------- *)

namespace_missing_inverted(rc) == rc = 0

namespace_missing_never(rc) == FALSE

\* if result.returncode != 0
namespace_missing(rc) == rc # 0

\* kubectl get namespaces <stack> with check=False: a missing namespace makes
\* kubectl fail; kubectl may also fail although the namespace exists
delete_get_namespace(rc) ==
    /\ pc = "get_ns"
    /\ rc = 0 => stack \in cluster.namespaces
    /\ calls' = Append(calls, Call("get_ns", stack, "", "", rc = 0))
    /\ LET lg == RunCmdLog(log, verbose, "get_ns") IN
       IF namespace_missing(rc)
       THEN /\ log' = Emit(lg, verbose, "WARNING", "namespace missing", stack)
            /\ Finish(0, "NotFound")
       ELSE IF is_monitoring(stack)
       THEN /\ log' = Emit(lg, verbose, "INFO", "delete start", "monitoring")
            /\ pc' = "delete"
            /\ UNCHANGED <<exit, outcome>>
       ELSE /\ log' = Emit(lg, verbose, "ERROR", "unknown stack", stack)
            /\ Finish(UNKNOWN_STACK_EXIT, "UnknownStack")
    /\ UNCHANGED <<cmd, stack, dry_run, timeout, verbose, idx, widx, pbar,
                   wbar, cluster, cluster0, prev, runs>>

delete_namespace_retry(ok) ==
    /\ pc = "delete"
    /\ calls' = Append(calls, Call("delete_ns", "monitoring", "", "", ok))
    /\ log' = RunCmdLog(log, verbose, "delete_ns")
    /\ IF run_cmd_raises(TRUE, ok)
       THEN UNCHANGED <<pc, exit, outcome, cluster>>
       ELSE /\ Finish(0, "Deleted")
            /\ cluster' = DeleteEffect(cluster, "monitoring")
    /\ UNCHANGED <<cmd, stack, dry_run, timeout, verbose, idx, widx, pbar,
                   wbar, cluster0, prev, runs>>

\* run_cmd(["kubectl", "delete", "namespaces", "monitoring"])
delete_namespace(ok) ==
    /\ pc = "delete"
    /\ calls' = Append(calls, Call("delete_ns", "monitoring", "", "", ok))
    /\ log' = RunCmdLog(log, verbose, "delete_ns")
    /\ IF run_cmd_raises(TRUE, ok)
       THEN /\ Finish(1, "DeleteFailed")
            /\ UNCHANGED cluster
       ELSE /\ Finish(0, "Deleted")
            /\ cluster' = DeleteEffect(cluster, "monitoring")
    /\ UNCHANGED <<cmd, stack, dry_run, timeout, verbose, idx, widx, pbar,
                   wbar, cluster0, prev, runs>>

(* ---------------------------- specification ---------------------------- *)

Next ==
    \/ deploy
    \/ delete_stack
    \/ \E ok \in BOOLEAN : ensure_kubectl_version(ok)
    \/ \E ok \in BOOLEAN : ensure_kubectl_context(ok)
    \/ \E exists \in BOOLEAN, ok \in BOOLEAN : deploy_apply(exists, ok)
    \/ \E ok \in BOOLEAN : deploy_wait(ok)
    \/ \E rc \in {0, 1} : delete_get_namespace(rc)
    \/ \E ok \in BOOLEAN : delete_namespace(ok)

Spec == Init /\ [][Next]_vars

(* ---------------------------- observations ----------------------------- *)

IsPrefix(s, t) == Len(s) <= Len(t) /\ \A k \in 1..Len(s) : s[k] = t[k]

CallsOf(op) == SelectSeq(calls, LAMBDA c : c.op = op)

ApplyCalls == CallsOf("apply")

ApplyArgs == [k \in 1..Len(ApplyCalls) |-> ApplyCalls[k].arg]

Ops == { calls[k].op : k \in 1..Len(calls) }

PreflightPassed == Len(calls) >= 2 /\ calls[1].ok /\ calls[2].ok

RegistryFiles(s) == IF s \in RegistryKeys THEN SUPPORT_STACKS[s].files ELSE << >>

ApplyFailures == {"ApplyRejected", "ManifestNotFound"}

FailedOutcomes == {"BackendUnavailable", "NoActiveContext", "UnknownStack",
                   "ApplyRejected", "ManifestNotFound", "ReadinessTimeout",
                   "DeleteFailed"}

(* ---------------------------- C1 --------------------------------------- *)

\* C1: in a deploy run the manifests on which kubectl apply was started are a
\* prefix of the registry list of the stack, in registry order (namespace.yaml
\* first, monitoring-ingress.yaml last); a failed apply is the last one of the
\* run, and an apply failure ends the run at the failing manifest.
C1_ApplyOrder ==
    cmd = "deploy" =>
        /\ IsPrefix(ApplyArgs, RegistryFiles(stack))
        /\ Len(ApplyArgs) >= 1 => ApplyArgs[1] = "namespace.yaml"
        /\ Len(ApplyArgs) = 8 => ApplyArgs[8] = "monitoring-ingress.yaml"
        /\ \A k \in 1..Len(ApplyCalls) : ~ApplyCalls[k].ok => k = Len(ApplyCalls)
        /\ outcome \in ApplyFailures =>
              /\ pc = "done"
              /\ Len(ApplyCalls) <= idx
              /\ Len(ApplyCalls) < Len(RegistryFiles(stack)) \/ ~ApplyCalls[idx].ok

\* manifests [A, B, ...]: A applied, B rejected, the run is over
C1_Witness ==
    /\ cmd = "deploy"
    /\ pc = "done"
    /\ outcome = "ApplyRejected"
    /\ Len(ApplyCalls) = 2
    /\ ApplyCalls[1].ok
    /\ ~ApplyCalls[2].ok
    /\ ~dry_run
    /\ "namespace.yaml" \in cluster.resources

(* ---------------------------- C2 --------------------------------------- *)

AppliedOk == { ApplyCalls[k].arg : k \in { n \in 1..Len(ApplyCalls) : ApplyCalls[n].ok } }

\* C2: for every key of the registry, a dry-run deploy issues only applies
\* carrying --dry-run=server, no readiness wait and no delete, leaves the
\* cluster unchanged, and exits 0 when every manifest of the stack was
\* applied successfully.
C2_DryRunClaim ==
    (cmd = "deploy" /\ dry_run /\ stack \in RegistryKeys) =>
        /\ \A k \in 1..Len(ApplyCalls) : ApplyCalls[k].flag = "--dry-run=server"
        /\ Ops \cap {"wait", "delete_ns", "get_ns"} = {}
        /\ cluster = cluster0
        /\ (pc = "done" /\ PreflightPassed
              /\ AppliedOk = Range(SUPPORT_STACKS[stack].files)) => exit = 0

(* ---------------------------- C3 --------------------------------------- *)

\* C3 as stated: for a stack that is no key of the registry, once preflight
\* has passed, deploy and delete both exit 2, whatever the namespace query
\* returns, and issue no call beyond preflight (deploy) or preflight and the
\* namespace query (delete).
C3_Original ==
    (pc = "done" /\ cmd \in {"deploy", "delete"} /\ stack \notin RegistryKeys
        /\ PreflightPassed) =>
        /\ exit = 2
        /\ Ops \subseteq {"version", "context", "get_ns"}

\* C3 amended: for a stack that is no key of the registry, deploy and delete
\* never start an apply, a wait or a deletion and leave the cluster unchanged;
\* once preflight has passed, deploy exits 2 after the two preflight calls,
\* and delete issues the namespace query and exits 2 if it returns zero, 0 if
\* it returns non-zero.
C3_Amended ==
    (cmd \in {"deploy", "delete"} /\ stack \notin RegistryKeys) =>
        /\ Ops \subseteq {"version", "context", "get_ns"}
        /\ cmd = "deploy" => "get_ns" \notin Ops
        /\ cluster = cluster0
        /\ (pc = "done" /\ PreflightPassed) =>
              /\ cmd = "deploy" => (exit = 2 /\ Len(calls) = 2)
              /\ cmd = "delete" =>
                    /\ Len(calls) = 3
                    /\ calls[3].op = "get_ns"
                    /\ exit = IF calls[3].ok THEN 2 ELSE 0

\* delete of an existing namespace that is no stack: exit 2, nothing deleted
C3_Witness ==
    /\ cmd = "delete"
    /\ stack = "kube-system"
    /\ pc = "done"
    /\ exit = 2
    /\ Len(calls) = 3
    /\ calls[3].ok
    /\ "kube-system" \in cluster.namespaces

(* ---------------------------- C4 --------------------------------------- *)

GetNsCalls == CallsOf("get_ns")

\* C4: a stack is unknown exactly when it is no key of the registry: for
\* every key (monitoring, elk, hadoop) deploy never exits with the
\* unknown-stack code 2, and delete, once the namespace query has returned
\* zero, issues the namespace deletion and reaches Deleted when it succeeds;
\* for every other stack deploy exits 2 once preflight has passed.
C4_RegistryClaim ==
    /\ (cmd = "deploy" /\ stack \in RegistryKeys) =>
          /\ exit # 2
          /\ outcome # "UnknownStack"
    /\ (cmd = "delete" /\ stack \in RegistryKeys /\ pc = "done"
          /\ Len(GetNsCalls) = 1 /\ GetNsCalls[1].ok) =>
          /\ exit # 2
          /\ "delete_ns" \in Ops
          /\ calls[Len(calls)].ok => outcome = "Deleted"
    /\ (cmd = "deploy" /\ stack \notin RegistryKeys /\ pc = "done"
          /\ PreflightPassed) => exit = 2

(* ---------------------------- C5 --------------------------------------- *)

\* C5: no deploy run starts a namespace deletion (or any call other than
\* preflight, apply and wait); nothing that was in the cluster when the run
\* started is removed, and in a run without --dry-run every manifest whose
\* apply succeeded is still in the cluster, also after a failed apply or a
\* failed readiness wait.
C5_NoRollback ==
    cmd = "deploy" =>
        /\ Ops \subseteq {"version", "context", "apply", "wait"}
        /\ cluster0.resources \subseteq cluster.resources
        /\ cluster0.namespaces \subseteq cluster.namespaces
        /\ ~dry_run => AppliedOk \subseteq cluster.resources
        /\ (~dry_run /\ "namespace.yaml" \in AppliedOk) =>
              "monitoring" \in cluster.namespaces

\* a readiness wait failed after all manifests had been applied to an empty
\* cluster: everything is still there
C5_Witness ==
    /\ cmd = "deploy"
    /\ pc = "done"
    /\ outcome = "ReadinessTimeout"
    /\ cluster0.resources = {}
    /\ cluster.resources = Range(SUPPORT_STACKS["monitoring"].files)
    /\ "monitoring" \in cluster.namespaces

(* ---------------------------- C6 --------------------------------------- *)

\* C6: when the version check or the context query fails, in deploy and in
\* delete, the run is over with a non-zero exit, the failed check is the last
\* kubectl call of the run and the cluster is unchanged; every other kubectl
\* call, and every change of the cluster, comes after both checks succeeded,
\* the version check first.
C6_Preflight ==
    cmd \in {"deploy", "delete"} =>
        /\ \A k \in 1..Len(calls) :
              (calls[k].op \in {"version", "context"} /\ ~calls[k].ok) =>
                  /\ k = Len(calls)
                  /\ pc = "done"
                  /\ exit = 1
                  /\ outcome \in {"BackendUnavailable", "NoActiveContext"}
                  /\ cluster = cluster0
        /\ \A k \in 1..Len(calls) :
              calls[k].op \notin {"version", "context"} =>
                  /\ k > 2
                  /\ calls[1].op = "version" /\ calls[1].ok
                  /\ calls[2].op = "context" /\ calls[2].ok
        /\ cluster # cluster0 => PreflightPassed
        /\ outcome \in {"BackendUnavailable", "NoActiveContext"} =>
              Ops \subseteq {"version", "context"}

\* delete of the deployed monitoring stack with no current context
C6_Witness ==
    /\ cmd = "delete"
    /\ stack = "monitoring"
    /\ "monitoring" \in cluster.namespaces
    /\ pc = "done"
    /\ outcome = "NoActiveContext"
    /\ Len(calls) = 2

(* ---------------------------- C7 --------------------------------------- *)

\* C7: when the namespace query of delete returns non-zero, the run is over
\* with exit 0 (NotFound), the query is its last kubectl call, no deletion
\* was started and the cluster is unchanged; a delete whose namespace is
\* absent from the cluster ends like that whenever preflight passes, so a
\* second delete ends like the first.
C7_DeleteMissing ==
    cmd = "delete" =>
        /\ (Len(GetNsCalls) >= 1 /\ ~GetNsCalls[1].ok) =>
              /\ pc = "done"
              /\ exit = 0
              /\ outcome = "NotFound"
              /\ Len(calls) = 3
              /\ "delete_ns" \notin Ops
              /\ cluster = cluster0
        /\ (pc = "done" /\ PreflightPassed /\ stack \notin cluster0.namespaces) =>
              /\ outcome = "NotFound"
              /\ exit = 0
              /\ cluster = cluster0

\* the second of two deletes of the absent monitoring namespace
C7_Witness ==
    /\ runs = 2
    /\ prev.cmd = "delete"
    /\ prev.stack = "monitoring"
    /\ prev.outcome = "NotFound"
    /\ cmd = "delete"
    /\ stack = "monitoring"
    /\ "monitoring" \notin cluster.namespaces
    /\ pc = "done"
    /\ outcome = "NotFound"
    /\ exit = 0

(* ---------------------------- C8 --------------------------------------- *)

\* C8: a finished deploy exits 0 exactly in Ready and DryRunComplete, 1 when
\* an apply failed (kubectl rejected the manifest or its file is missing),
\* and 2 when the stack was found unknown, which is what happens to a stack
\* outside the registry once preflight has passed.
C8_ExitCodes ==
    (cmd = "deploy" /\ pc = "done") =>
        /\ exit \in {0, 1, 2}
        /\ exit = 0 <=> outcome \in {"Ready", "DryRunComplete"}
        /\ outcome \in ApplyFailures => exit = 1
        /\ (\E k \in 1..Len(ApplyCalls) : ~ApplyCalls[k].ok) =>
              (exit = 1 /\ outcome = "ApplyRejected")
        /\ outcome = "UnknownStack" => exit = 2
        /\ (stack \notin RegistryKeys /\ PreflightPassed) =>
              (exit = 2 /\ outcome = "UnknownStack")

\* the file of the third manifest is missing
C8_Witness ==
    /\ cmd = "deploy"
    /\ pc = "done"
    /\ outcome = "ManifestNotFound"
    /\ idx = 3
    /\ Len(ApplyCalls) = 2
    /\ exit = 1

(* ---------------------------- C9 --------------------------------------- *)

WaitCalls == CallsOf("wait")

\* C9: in a deploy without --dry-run, after a successful wait for the first
\* group the run is at the wait for the second; it is Ready exactly when both
\* waits succeeded; a failed wait is the last kubectl call of the run, which
\* is then over with a non-zero exit and not Ready.
C9_Waits ==
    cmd = "deploy" =>
        /\ Len(WaitCalls) >= 1 => ~dry_run
        /\ Len(WaitCalls) <= 2
        /\ \A k \in 1..Len(WaitCalls) :
              WaitCalls[k].arg = << "app=prometheus", "app=grafana" >>[k]
        /\ (Len(WaitCalls) = 1 /\ WaitCalls[1].ok) =>
              (pc = "wait" /\ widx = 2 /\ outcome = "none")
        /\ (Len(WaitCalls) = 2 /\ WaitCalls[2].ok) =>
              (pc = "done" /\ outcome = "Ready" /\ exit = 0)
        /\ outcome = "Ready" =>
              (Len(WaitCalls) = 2 /\ WaitCalls[1].ok /\ WaitCalls[2].ok)
        /\ \A k \in 1..Len(WaitCalls) :
              ~WaitCalls[k].ok =>
                  /\ k = Len(WaitCalls)
                  /\ calls[Len(calls)] = WaitCalls[k]
                  /\ pc = "done"
                  /\ outcome = "ReadinessTimeout"
                  /\ exit \notin {0, -1}

\* prometheus became ready, grafana did not
C9_Witness ==
    /\ cmd = "deploy"
    /\ Len(WaitCalls) = 2
    /\ WaitCalls[1].ok
    /\ ~WaitCalls[2].ok
    /\ pc = "done"
    /\ exit = 1

(* ---------------------------- C10 -------------------------------------- *)

AllCallsOk == \A k \in 1..Len(calls) : calls[k].ok

ErrorsLogged == { k \in 1..Len(log) : log[k].level = "ERROR" }

IsTwin == "calls" \in DOMAIN prev

StartTwin ==
    /\ pc = "done"
    /\ runs = 1
    /\ runs' = 2
    /\ pc' = "version"
    /\ verbose' = ~verbose
    /\ idx' = 1
    /\ widx' = 1
    /\ pbar' = 0
    /\ wbar' = 0
    /\ calls' = << >>
    /\ log' = << >>
    /\ exit' = -1
    /\ outcome' = "none"
    /\ cluster' = cluster0
    /\ prev' = [cmd |-> cmd, stack |-> stack, dry_run |-> dry_run,
                outcome |-> outcome, exit |-> exit, calls |-> calls,
                log |-> log, cluster |-> cluster, idx |-> idx,
                verbose |-> verbose]
    /\ UNCHANGED <<cmd, stack, dry_run, timeout, cluster0>>

\* kubectl answers the k-th call of the second invocation as it answered the
\* k-th call of the first
TwinOk ==
    IF IsTwin /\ Len(calls) < Len(prev.calls)
    THEN {prev.calls[Len(calls) + 1].ok}
    ELSE BOOLEAN

\* the manifest files on disk are the same in both invocations
TwinExists ==
    IF IsTwin
    THEN {~(prev.outcome = "ManifestNotFound" /\ idx = prev.idx)}
    ELSE BOOLEAN

NextTwin ==
    \/ runs = 0 /\ deploy
    \/ runs = 0 /\ delete_stack
    \/ StartTwin
    \/ \E ok \in TwinOk : ensure_kubectl_version(ok)
    \/ \E ok \in TwinOk : ensure_kubectl_context(ok)
    \/ \E exists \in TwinExists, ok \in TwinOk : deploy_apply(exists, ok)
    \/ \E ok \in TwinOk : deploy_wait(ok)
    \/ \E ok \in TwinOk : delete_get_namespace(IF ok THEN 0 ELSE 1)
    \/ \E ok \in TwinOk : delete_namespace(ok)

SpecTwin == Init /\ [][NextTwin]_vars

NotDebug(lg) == SelectSeq(lg, LAMBDA r : r.level # "DEBUG")

\* C11: of two deploy (or two delete) invocations that differ only in
\* --verbose and get the same answers from kubectl, the second starts the
\* same kubectl calls with the same arguments in the same order, and ends in
\* the same terminal state with the same exit code and the same cluster; what
\* they write differs in DEBUG records only.
C11_VerboseOnlyLogs ==
    IsTwin =>
        /\ verbose # prev.verbose
        /\ IsPrefix(calls, prev.calls)
        /\ pc # "done" =>
              (Len(calls) < Len(prev.calls) \/ prev.outcome = "ManifestNotFound")
        /\ pc = "done" =>
              /\ calls = prev.calls
              /\ outcome = prev.outcome
              /\ exit = prev.exit
              /\ cluster = prev.cluster
              /\ NotDebug(log) = NotDebug(prev.log)

\* a verbose deploy that reached Ready, repeated without --verbose
C11_Witness ==
    /\ IsTwin
    /\ pc = "done"
    /\ cmd = "deploy"
    /\ prev.verbose
    /\ ~verbose
    /\ outcome = "Ready"
    /\ Len(log) < Len(prev.log)

(* ---------------------------- C12 -------------------------------------- *)

\* C12: a readiness wait is started only by a deploy without --dry-run and
\* only after every manifest of the stack was applied successfully; the waits
\* are app=prometheus first, app=grafana second, each at most once, in the
\* namespace monitoring.
C12_WaitOrder ==
    Len(WaitCalls) >= 1 =>
        /\ cmd = "deploy"
        /\ ~dry_run
        /\ AppliedOk = Range(RegistryFiles(stack))
        /\ Len(ApplyCalls) = Len(RegistryFiles(stack))
        /\ \A i, j \in 1..Len(calls) :
              (calls[i].op = "wait" /\ calls[j].op = "apply") => j < i
        /\ Len(WaitCalls) <= 2
        /\ WaitCalls[1].arg = "app=prometheus"
        /\ Len(WaitCalls) = 2 => WaitCalls[2].arg = "app=grafana"
        /\ \A k \in 1..Len(WaitCalls) : WaitCalls[k].ns = "monitoring"

\* prometheus is ready, the wait for grafana is next
C12_Witness ==
    /\ cmd = "deploy"
    /\ pc = "wait"
    /\ widx = 2
    /\ Len(WaitCalls) = 1
    /\ WaitCalls[1].ok
    /\ Len(ApplyCalls) = 8

(* ---------------------------- C13 -------------------------------------- *)

MissingReported == { k \in 1..Len(log) : log[k].msg = "manifest not found" }

\* C13: when the file of a manifest does not exist, apply_yaml reports it and
\* fails without starting kubectl: the run is over with ManifestNotFound and
\* exit 1, no apply call was started for that manifest, and the applies of
\* the run are exactly the manifests before it.
C13_ManifestNotFound ==
    /\ \A k \in MissingReported :
          /\ cmd = "deploy"
          /\ pc = "done"
          /\ outcome = "ManifestNotFound"
          /\ exit = 1
          /\ idx \in 1..Len(RegistryFiles(stack))
          /\ log[k].arg = RegistryFiles(stack)[idx]
          /\ log[k].arg \notin Range(ApplyArgs)
          /\ Len(ApplyCalls) = idx - 1
          /\ \A n \in 1..Len(ApplyCalls) : ApplyCalls[n].ok
          /\ calls = << >> \/ calls[Len(calls)].op \in {"context", "apply"}
    /\ outcome = "ManifestNotFound" => Cardinality(MissingReported) = 1

\* the file of the first manifest is missing: kubectl apply never ran
C13_Witness ==
    /\ cmd = "deploy"
    /\ pc = "done"
    /\ outcome = "ManifestNotFound"
    /\ idx = 1
    /\ Len(calls) = 2
    /\ ApplyCalls = << >>
    /\ exit = 1

(* ---------------------------- C14 -------------------------------------- *)

\* C14: within one invocation no kubectl call is started twice (each
\* preflight check, the apply of each manifest, each readiness wait, the
\* namespace query and the deletion at most once), a missing manifest file is
\* reported at most once, and a failed preflight check, apply, wait or
\* deletion is the last kubectl call of the invocation, which is then over.
C14_NoRetry ==
    /\ \A i, j \in 1..Len(calls) :
          (calls[i].op = calls[j].op /\ calls[i].arg = calls[j].arg
              /\ calls[i].ns = calls[j].ns) => i = j
    /\ Cardinality(MissingReported) <= 1
    /\ \A k \in 1..Len(calls) :
          (~calls[k].ok
              /\ calls[k].op \in {"version", "context", "apply", "wait", "delete_ns"}) =>
              /\ k = Len(calls)
              /\ pc = "done"
              /\ exit = 1
    /\ outcome \in FailedOutcomes => pc = "done"

\* the namespace deletion failed: it was tried once and the run is over
C14_Witness ==
    /\ cmd = "delete"
    /\ pc = "done"
    /\ outcome = "DeleteFailed"
    /\ Len(calls) = 4
    /\ ~calls[4].ok
    /\ "monitoring" \in cluster.namespaces

(* ---------------------------- C15 -------------------------------------- *)

\* the manifest that declares the pods carrying a label
ComponentManifest(label) ==
    CASE label = "app=prometheus" -> "prometheus-deployment.yaml"
      [] label = "app=grafana"    -> "grafana-deployment.yaml"
      [] OTHER                    -> "(none)"

\* the manifest that declares a namespace
NamespaceManifest(ns) ==
    IF ns = "monitoring" THEN "namespace.yaml" ELSE "(none)"

AppliedOkBefore(file, k) ==
    \E i \in 1..(k - 1) :
        calls[i].op = "apply" /\ calls[i].arg = file /\ calls[i].ok

\* C15: whenever deploy waits on label app=X in namespace N, the manifest
\* list of the stack holds the manifest declaring component X and the one
\* declaring namespace N, and both were applied successfully earlier in the
\* same run.
C15_WaitsDeclared ==
    \A k \in 1..Len(calls) :
        calls[k].op = "wait" =>
            /\ ComponentManifest(calls[k].arg) \in Range(RegistryFiles(stack))
            /\ NamespaceManifest(calls[k].ns) \in Range(RegistryFiles(stack))
            /\ AppliedOkBefore(ComponentManifest(calls[k].arg), k)
            /\ AppliedOkBefore(NamespaceManifest(calls[k].ns), k)

\* the wait for prometheus was started and timed out
C15_Witness ==
    /\ cmd = "deploy"
    /\ pc = "done"
    /\ outcome = "ReadinessTimeout"
    /\ Len(WaitCalls) = 1
    /\ WaitCalls[1].arg = "app=prometheus"
    /\ WaitCalls[1].ns = "monitoring"

(* ---------------------------- C16 -------------------------------------- *)

Reported(m) == \E k \in 1..Len(log) : log[k].msg = m

\* C16: deploy reports success and the access endpoints only in Ready, that
\* is in a run without --dry-run in which every manifest was applied and both
\* readiness waits succeeded; it reports that no resources were created only
\* in a --dry-run run in which every manifest apply succeeded; no run reports
\* both and a Failed run reports neither.
C16_Reports ==
    /\ (Reported("deployed") \/ Reported("endpoints")) =>
          /\ cmd = "deploy"
          /\ ~dry_run
          /\ pc = "done"
          /\ outcome = "Ready"
          /\ Reported("deployed") /\ Reported("endpoints")
          /\ AppliedOk = Range(RegistryFiles(stack))
          /\ Len(WaitCalls) = 2
          /\ \A k \in 1..Len(calls) : calls[k].ok
    /\ Reported("dry run done") =>
          /\ cmd = "deploy"
          /\ dry_run
          /\ pc = "done"
          /\ outcome = "DryRunComplete"
          /\ AppliedOk = Range(RegistryFiles(stack))
          /\ \A k \in 1..Len(calls) : calls[k].ok
          /\ WaitCalls = << >>
    /\ ~(Reported("deployed") /\ Reported("dry run done"))
    /\ outcome \in FailedOutcomes =>
          /\ ~Reported("deployed")
          /\ ~Reported("endpoints")
          /\ ~Reported("dry run done")
    /\ outcome = "Ready" => Reported("deployed")
    /\ outcome = "DryRunComplete" => Reported("dry run done")

\* a dry run that went through: the message is out, the cluster untouched
C16_Witness ==
    /\ cmd = "deploy"
    /\ dry_run
    /\ pc = "done"
    /\ outcome = "DryRunComplete"
    /\ Reported("dry run done")
    /\ cluster = cluster0

(* ---------------------------- C17 -------------------------------------- *)

\* C17: preflight starts at most two kubectl calls, the client-version check
\* first and the current-context query second, and they change nothing in
\* the cluster; the context query is started only after the version check
\* succeeded; a failed version check ends the run as BackendUnavailable with
\* the "kubectl not found" error, a failed context query as NoActiveContext
\* with the "no current context" error.
C17_PreflightOrder ==
    /\ Len(CallsOf("version")) <= 1
    /\ Len(CallsOf("context")) <= 1
    /\ Len(calls) >= 1 => calls[1].op = "version"
    /\ \A k \in 1..Len(calls) :
          /\ calls[k].op = "version" => k = 1
          /\ calls[k].op = "context" => (k = 2 /\ calls[1].ok)
    /\ Len(calls) <= 2 => cluster = cluster0
    /\ (Len(calls) >= 1 /\ ~calls[1].ok) =>
          /\ Len(calls) = 1
          /\ outcome = "BackendUnavailable"
          /\ Reported("kubectl not found")
          /\ ~Reported("no current context")
    /\ (Len(calls) >= 2 /\ ~calls[2].ok) =>
          /\ Len(calls) = 2
          /\ outcome = "NoActiveContext"
          /\ Reported("no current context")
          /\ ~Reported("kubectl not found")
    /\ outcome = "BackendUnavailable" => (Len(calls) = 1 /\ ~calls[1].ok)
    /\ outcome = "NoActiveContext" => (Len(calls) = 2 /\ ~calls[2].ok)

\* kubectl is not installed: the version check is the only call of the deploy
C17_Witness ==
    /\ cmd = "deploy"
    /\ pc = "done"
    /\ outcome = "BackendUnavailable"
    /\ Len(calls) = 1
    /\ calls[1].op = "version"
    /\ exit = 1

(* ---------------------------- C18 -------------------------------------- *)

OkApplies == { n \in 1..Len(ApplyCalls) : ApplyCalls[n].ok }

\* C18: in a deploy the progress count equals the number of manifests applied
\* successfully so far, never exceeds the number of manifests of the stack,
\* does not move for a manifest whose apply failed, and equals the total
\* exactly when the run has left the apply loop without a failure.
C18_Progress ==
    cmd = "deploy" =>
        /\ pbar = Cardinality(OkApplies)
        /\ pbar = Cardinality(AppliedOk)
        /\ pbar <= 8
        /\ pbar <= Len(RegistryFiles(stack))
        /\ pc = "apply" => (pbar = idx - 1 /\ pbar < 8)
        /\ outcome \in ApplyFailures => (pbar = idx - 1 /\ pbar < 8)
        /\ pbar = 8 <=>
              (pc = "wait" \/ outcome \in {"DryRunComplete", "Ready",
                                            "ReadinessTimeout"})

\* the fifth manifest was rejected: progress stays at four
C18_Witness ==
    /\ cmd = "deploy"
    /\ pc = "done"
    /\ outcome = "ApplyRejected"
    /\ Len(ApplyCalls) = 5
    /\ pbar = 4

(* ---------------------------- C19 -------------------------------------- *)

DeleteCalls == CallsOf("delete_ns")

\* C19: a namespace deletion is started only by delete, at most once per
\* invocation, as its fourth kubectl call after the version check, the context
\* query and the namespace query all succeeded, and only for the namespace of
\* the stack delete recognises, which is a key of the registry; for every
\* other stack argument, the name of an existing unrelated namespace
\* included, no deletion is started and the cluster is unchanged; the cluster
\* changes only by a successful deletion.
C19_DeleteGuarded ==
    /\ DeleteCalls # << >> => cmd = "delete"
    /\ cmd = "delete" =>
          /\ Len(DeleteCalls) <= 1
          /\ \A k \in 1..Len(calls) :
                calls[k].op = "delete_ns" =>
                    /\ k = 4
                    /\ calls[1].op = "version" /\ calls[1].ok
                    /\ calls[2].op = "context" /\ calls[2].ok
                    /\ calls[3].op = "get_ns" /\ calls[3].ok
                    /\ calls[3].arg = stack
                    /\ calls[k].arg = stack
                    /\ stack \in RegistryKeys
                    /\ stack = "monitoring"
                    /\ stack \in cluster0.namespaces
          /\ stack # "monitoring" => (DeleteCalls = << >> /\ cluster = cluster0)
          /\ cluster # cluster0 =>
                /\ Len(DeleteCalls) = 1
                /\ DeleteCalls[1].ok
                /\ cluster.namespaces = cluster0.namespaces \ {stack}

\* monitoring was deleted, the unrelated namespace next to it is still there
C19_Witness ==
    /\ cmd = "delete"
    /\ pc = "done"
    /\ outcome = "Deleted"
    /\ "monitoring" \in cluster0.namespaces
    /\ "monitoring" \notin cluster.namespaces
    /\ "kube-system" \in cluster.namespaces

(* ---------------------------- C20 -------------------------------------- *)

\* the steps of a running invocation: each is one blocking kubectl call
Step ==
    \/ \E ok \in BOOLEAN : ensure_kubectl_version(ok)
    \/ \E ok \in BOOLEAN : ensure_kubectl_context(ok)
    \/ \E exists \in BOOLEAN, ok \in BOOLEAN : deploy_apply(exists, ok)
    \/ \E ok \in BOOLEAN : deploy_wait(ok)
    \/ \E rc \in {0, 1} : delete_get_namespace(rc)
    \/ \E ok \in BOOLEAN : delete_namespace(ok)

\* a first invocation and one that follows it
NextFair ==
    \/ runs \in {0, 1} /\ deploy
    \/ runs \in {0, 1} /\ delete_stack
    \/ Step

\* every blocking kubectl call returns
SpecFair == Init /\ [][NextFair]_vars /\ WF_vars(Step)

Running == pc \notin {"idle", "done"}

Preflights == Len(CallsOf("version")) + Len(CallsOf("context"))

CallBudget ==
    /\ cmd = "deploy" =>
          /\ Preflights <= 2
          /\ Len(ApplyCalls) <= Len(RegistryFiles(stack))
          /\ Len(WaitCalls) <= 2
          /\ Len(calls) = Preflights + Len(ApplyCalls) + Len(WaitCalls)
          /\ pc = "done" =>
                outcome \in {"DryRunComplete", "Ready", "BackendUnavailable",
                             "NoActiveContext", "UnknownStack", "ApplyRejected",
                             "ManifestNotFound", "ReadinessTimeout"}
    /\ cmd = "delete" =>
          /\ Preflights <= 2
          /\ Len(GetNsCalls) <= 1
          /\ Len(DeleteCalls) <= 1
          /\ Len(calls) = Preflights + Len(GetNsCalls) + Len(DeleteCalls)
          /\ pc = "done" =>
                outcome \in {"NotFound", "Deleted", "BackendUnavailable",
                             "NoActiveContext", "UnknownStack", "DeleteFailed"}
    /\ Running => (outcome = "none" /\ exit = -1)
    /\ pc = "done" => (outcome # "none" /\ exit \in {0, 1, 2})

\* C20: provided every blocking kubectl call returns, every deploy and delete
\* invocation ends: deploy in exactly one of DryRunComplete, Ready or a Failed
\* state after at most 2 preflight calls, one apply per manifest of the stack
\* and 2 readiness waits, delete in exactly one of NotFound, Deleted or a
\* Failed state after at most 2 preflight calls, 1 namespace query and 1
\* deletion.
C20_Terminates == []CallBudget /\ (Running ~> pc = "done")

\* a deploy that used its whole budget: 2 preflight calls, 8 applies, 2 waits
C20_Witness ==
    /\ cmd = "deploy"
    /\ pc = "done"
    /\ Preflights = 2
    /\ Len(ApplyCalls) = 8
    /\ Len(WaitCalls) = 2
    /\ Len(calls) = 12

====
